---- MODULE Spec2Model ----
(***************************************************************************)
(* Model of polyply/src/map_to_molecule.py: the MapToMolecule processor    *)
(* (match_nodes_to_blocks, add_blocks, run_molecule), tag_exclusions and   *)
(* _correspondence_to_residue.                                             *)
(*                                                                         *)
(* A meta-molecule is a record [n, edges, kind, extra]: its nodes are      *)
(* 1..n, edges is a set of two-element node sets, kind[v] gives the        *)
(* resname and the optional from_itp of node v, node v has resid = v and   *)
(* seqID = v, and extra tells whether the nodes carry one more attribute   *)
(* that the templates' nodes do not have.  A molecule is a sequence of     *)
(* atom records; the atom at position i is the molecule node i.  A         *)
(* correspondence is the sequence of molecule nodes the template's nodes   *)
(* were given, in template order.                                          *)
(***************************************************************************)
EXTENDS Integers, Sequences, FiniteSets, TLC

\* ---------------------------------------------------------------- bounds
MaxNodes == 3        \* nodes of a meta-molecule handed to a fresh instance
MaxNodesRuns == 2    \* nodes of a meta-molecule in the multi-run specification
MaxTagNodes == 3     \* nodes of a mapping handed to tag_exclusions directly
MaxNrexcl == 3       \* nrexcl values of the library are 1..MaxNrexcl
MaxRuns == 2         \* calls made on one shared template library

None == "none"
NoTag == 0

\* ------------------------------------------------- the template library
BlockNames == {"A", "B", "X", "Y"}

\* The atoms of each template with their resid and resname attributes:
\* A and B are single-residue templates, X and Y hold two residues.
BlockAtoms(b) ==
  CASE b = "A" -> << [resid |-> 1, resname |-> "A"] >>
    [] b = "B" -> << [resid |-> 1, resname |-> "B"], [resid |-> 1, resname |-> "B"] >>
    [] b = "X" -> << [resid |-> 1, resname |-> "A"], [resid |-> 2, resname |-> "B"] >>
    [] b = "Y" -> << [resid |-> 1, resname |-> "B"], [resid |-> 2, resname |-> "B"],
                     [resid |-> 2, resname |-> "B"] >>

\* ------------------------------------------------------ meta-molecules
NodeKinds ==
  { [resname |-> "A", from_itp |-> None],
    [resname |-> "B", from_itp |-> None],
    [resname |-> "A", from_itp |-> "X"],
    [resname |-> "B", from_itp |-> "Y"] }

Pairs(n) == { {i, j} : i \in 1..n, j \in 1..n } \ { {i} : i \in 1..n }

\* the meta-molecules of at most maxn nodes, without the extra attribute
MetaMolecules(maxn) ==
  UNION { { [n |-> n, edges |-> E, kind |-> k, extra |-> FALSE] :
              E \in SUBSET Pairs(n), k \in [1..n -> NodeKinds] } :
          n \in 1..maxn }

NoMeta == [n |-> 0, edges |-> {}, kind |-> << >>, extra |-> FALSE]

Nodes(mm) == 1..mm.n
Resid(mm, v) == v
Resname(mm, v) == mm.kind[v].resname
FromItp(mm, v) == mm.kind[v].from_itp
\* nx.get_node_attributes(meta_molecule, "from_itp"): the nodes carrying it
restart_attr(mm) == { v \in Nodes(mm) : FromItp(mm, v) # None }

Neighbours(mm, v) == { w \in Nodes(mm) : {v, w} \in mm.edges }

Range(s) == { s[i] : i \in DOMAIN s }

\* ------------------------------------------------ nx.dfs_edges(meta_molecule)
\* Every edge sequence a depth-first traversal can yield: any start node of
\* each component, any order of a node's neighbours.  Explore gives the
\* <<visited, edges>> pairs reachable from node v.
RECURSIVE Explore(_, _, _, _)
Explore(mm, v, vis, es) ==
  LET cand == { w \in Neighbours(mm, v) : w \notin vis }
  IN IF cand = {} THEN { <<vis, es>> }
     ELSE UNION { UNION { Explore(mm, v, r[1], r[2]) :
                          r \in Explore(mm, w, vis \cup {w}, Append(es, <<v, w>>)) } :
                  w \in cand }

RECURSIVE Forest(_, _, _)
Forest(mm, vis, es) ==
  LET todo == Nodes(mm) \ vis
  IN IF todo = {} THEN { es }
     ELSE UNION { UNION { Forest(mm, r[1], r[2]) : r \in Explore(mm, s, vis \cup {s}, es) } :
                  s \in todo }

dfs_edges(mm) == Forest(mm, {}, << >>)

\* ------------------------------------------------ graphs built from edges
RECURSIVE SelectEdges(_, _, _)
SelectEdges(es, mm, restart) ==
  IF es = << >> THEN << >>
  ELSE LET e == Head(es)
           both == e[1] \in restart_attr(mm) /\ e[2] \in restart_attr(mm)
           rest == SelectEdges(Tail(es), mm, restart)
       IN IF both = restart THEN << e >> \o rest ELSE rest

\* the nodes of a graph built by add_edge calls, in insertion order
RECURSIVE NodeOrder(_, _)
NodeOrder(es, acc) ==
  IF es = << >> THEN acc
  ELSE LET e == Head(es)
           a1 == IF e[1] \in Range(acc) THEN acc ELSE Append(acc, e[1])
           a2 == IF e[2] \in Range(a1) THEN a1 ELSE Append(a1, e[2])
       IN NodeOrder(Tail(es), a2)

EdgeSet(es) == { {es[i][1], es[i][2]} : i \in DOMAIN es }

RECURSIVE Reach(_, _)
Reach(E, S) ==
  LET T == S \cup { w \in UNION E : \E v \in S : {v, w} \in E }
  IN IF T = S THEN S ELSE Reach(E, T)

\* nx.connected_components: the component of each not yet seen node, in node order
RECURSIVE Components(_, _, _)
Components(E, order, seen) ==
  IF order = << >> THEN << >>
  ELSE IF Head(order) \in seen THEN Components(E, Tail(order), seen)
  ELSE LET c == Reach(E, {Head(order)})
       IN << c >> \o Components(E, Tail(order), seen \cup c)

connected_components(es) == Components(EdgeSet(es), NodeOrder(es, << >>), {})

\* the dict f with f[v] = val for every v in S
Update(f, S, val) == [ v \in DOMAIN f \cup S |-> IF v \in S THEN val ELSE f[v] ]

\* the dict f with f[v] = g[v] for every v in the domain of g
UpdateAll(f, g) == [ v \in DOMAIN f \cup DOMAIN g |-> IF v \in DOMAIN g THEN g[v] ELSE f[v] ]

EmptyDict == [ v \in {} |-> None ]

\* Python list indexing with a 0-based index
ListGet(s, i) == s[i + 1]

\* ------------------------------------------- match_nodes_to_blocks
\* mutant: the loop records every component without comparing its from_itp values
RECURSIVE match_fragments_unchecked(_, _, _, _, _)
match_fragments_unchecked(comps, ntb, ntf, frags, mm) ==
  IF comps = << >>
  THEN [node_to_block |-> ntb, node_to_fragment |-> ntf, fragments |-> frags, err |-> None]
  ELSE LET fragment == Head(comps)
           block_name == FromItp(mm, CHOOSE v \in fragment : TRUE)
           frags2 == Append(frags, fragment)
       IN match_fragments_unchecked(Tail(comps), Update(ntb, fragment, block_name),
                                    Update(ntf, fragment, Len(frags2) - 1), frags2, mm)

\* the loop over nx.connected_components(restart_graph)
RECURSIVE match_fragments(_, _, _, _, _)
match_fragments(comps, ntb, ntf, frags, mm) ==
  IF comps = << >>
  THEN [node_to_block |-> ntb, node_to_fragment |-> ntf, fragments |-> frags, err |-> None]
  ELSE LET fragment == Head(comps)
           block_name == FromItp(mm, CHOOSE v \in fragment : TRUE)
       IN IF \A node \in fragment : FromItp(mm, node) = block_name
          THEN LET frags2 == Append(frags, fragment)
               IN match_fragments(Tail(comps), Update(ntb, fragment, block_name),
                                  Update(ntf, fragment, Len(frags2) - 1), frags2, mm)
          ELSE [node_to_block |-> ntb, node_to_fragment |-> ntf, fragments |-> frags,
                err |-> "IOError"]

\* es is the edge sequence nx.dfs_edges yielded
match_nodes_to_blocks(ntb, ntf, frags, mm, es) ==
  LET regular_graph == SelectEdges(es, mm, FALSE)
      restart_edges == SelectEdges(es, mm, TRUE)
      regular_nodes == Range(NodeOrder(regular_graph, << >>))
      ntb1 == UpdateAll(ntb, [ node \in regular_nodes |-> Resname(mm, node) ])
  IN match_fragments(connected_components(restart_edges), ntb1, ntf, frags, mm)

\* ---------------------------------------------------- tag_exclusions
SetMin(S) == CHOOSE x \in S : \A y \in S : x <= y
SetMax(S) == CHOOSE x \in S : \A y \in S : x >= y

\* mutant: the maximum is taken
min_excl_max(values) == SetMax(values)

\* the minimum taken at line 36
min_excl(values) == SetMin(values)

\* mutant: the loop tags with the template's current nrexcl, not the one read
\* into excls before the loop
RECURSIVE tag_loop_current(_, _, _, _, _)
tag_loop_current(todo, ntb, excls, m, ff) ==
  IF todo = {} THEN ff
  ELSE LET node == CHOOSE v \in todo : TRUE
       IN tag_loop_current(todo \ {node}, ntb, excls, m,
                           [ff EXCEPT ![ntb[node]] =
                              [nrexcl |-> m, exclude |-> ff[ntb[node]].nrexcl]])

\* ff maps each template name to its nrexcl and the exclude tag of its nodes.
\* The loop of lines 37-40 over excls.items().
RECURSIVE tag_loop(_, _, _, _, _)
tag_loop(todo, ntb, excls, m, ff) ==
  IF todo = {} THEN ff
  ELSE LET node == CHOOSE v \in todo : TRUE
       IN tag_loop(todo \ {node}, ntb, excls, m,
                   [ff EXCEPT ![ntb[node]] = [nrexcl |-> m, exclude |-> excls[node]]])

tag_exclusions(ntb, ff) ==
  LET excls == [ node \in DOMAIN ntb |-> ff[ntb[node]].nrexcl ]
  IN IF Cardinality(Range(excls)) > 1
     THEN tag_loop(DOMAIN ntb, ntb, excls, min_excl(Range(excls)), ff)
     ELSE ff

\* ------------------------------------- Block.to_molecule, merge_molecule
\* the template's nodes renumbered from the first free molecule node; resid
\* is shifted by the resid of the molecule's last node
to_molecule(b, ff) ==
  [ atoms |-> [ i \in 1..Len(BlockAtoms(b)) |->
                  [resid |-> BlockAtoms(b)[i].resid, resname |-> BlockAtoms(b)[i].resname,
                   exclude |-> ff[b].exclude] ],
    nrexcl |-> ff[b].nrexcl ]

merge_molecule(mol, b, ff) ==
  LET offset == Len(mol.atoms)
      residue_offset == mol.atoms[offset].resid
      new == [ i \in 1..Len(BlockAtoms(b)) |->
                 [resid |-> BlockAtoms(b)[i].resid + residue_offset,
                  resname |-> BlockAtoms(b)[i].resname,
                  exclude |-> ff[b].exclude] ]
  IN [ mol |-> [mol EXCEPT !.atoms = mol.atoms \o new],
       correspondence |-> [ i \in 1..Len(BlockAtoms(b)) |-> offset + i ] ]

\* --------------------------------------- _correspondence_to_residue
\* A node of a residue graph: its molecule node and the attributes it
\* carries; from_itp = None, seqID = 0, graph = FALSE and extra = FALSE stand
\* for an absent attribute.
ResidueNode(id, data) ==
  [id |-> id, resid |-> data.resid, resname |-> data.resname, exclude |-> data.exclude,
   from_itp |-> None, seqID |-> 0, graph |-> FALSE, extra |-> FALSE]

\* mutant: seqID is propagated
Skipped_graph_only == {"graph"}

\* the attributes line 71 does not propagate
Skipped == {"graph", "seqID"}

\* meta_molecule.nodes[node]["graph"] = residue; graphs maps the nodes that carry
\* a graph attribute to it
Attach(graphs, node, residue) ==
  [ v \in DOMAIN graphs \cup {node} |-> IF v = node THEN residue ELSE graphs[v] ]

NoGraphs == [ v \in {} |-> {} ]

\* no molecule attribute
NoMolecule == [atoms |-> << >>, nrexcl |-> 0]

\* has_graph: the meta-molecule node already carries a graph attribute
Propagate(rn, mm, res_node, has_graph, skip) ==
  [rn EXCEPT !.resid = Resid(mm, res_node),
             !.resname = Resname(mm, res_node),
             !.from_itp = FromItp(mm, res_node),
             !.extra = mm.extra,
             !.seqID = IF "seqID" \in skip THEN @ ELSE res_node,
             !.graph = IF "graph" \in skip THEN @ ELSE has_graph]

correspondence_to_residue(mm, mol, correspondence, res_node, has_graph) ==
  { Propagate(ResidueNode(mol_node, mol.atoms[mol_node]), mm, res_node, has_graph, Skipped) :
      mol_node \in { x \in Range(correspondence) :
                       mol.atoms[x].resid = Resid(mm, res_node) } }

\* new_mol.copy(): every node of the molecule with the molecule's attributes
MolCopy(mol) == { ResidueNode(i, mol.atoms[i]) : i \in DOMAIN mol.atoms }

\* ------------------------------------------------------- add_blocks
\* node_keys sorted by (resid, node), lines 170-173
RECURSIVE SortedKeys(_, _)
SortedKeys(mm, todo) ==
  IF todo = {} THEN << >>
  ELSE LET least == CHOOSE v \in todo : \A w \in todo :
                       \/ Resid(mm, v) < Resid(mm, w)
                       \/ Resid(mm, v) = Resid(mm, w) /\ v <= w
       IN << least >> \o SortedKeys(mm, todo \ {least})

\* self.added_fragments is created empty (line 89) and never written
added_fragments == {}

\* The assembler's state while add_blocks runs.  trace has one entry per
\* visited node: the path taken, the correspondence used to extract its
\* residue and the nodes recorded as materialized in that step.
Failed(s, e) == [s EXCEPT !.err = e]

Visit(node, path, correspondence, marked) ==
  [node |-> node, path |-> path, correspondence |-> correspondence, marked |-> marked]

\* lines 175-197: the first node
add_first(self, mm, ff, node_keys) ==
  LET start_node == node_keys[1]
      s0 == [mol |-> NoMolecule, graph |-> NoGraphs,
             added_fragment_nodes |-> self.added_fragment_nodes,
             multiblock_correspondence |-> self.multiblock_correspondence,
             trace |-> << >>, err |-> None]
  IN IF start_node \notin DOMAIN self.node_to_block THEN Failed(s0, "KeyError")
     ELSE LET new_mol == to_molecule(self.node_to_block[start_node], ff)
          IN IF FromItp(mm, start_node) # None
             THEN IF start_node \notin DOMAIN self.node_to_fragment
                  THEN Failed(s0, "KeyError")
                  ELSE LET fragment_nodes ==
                             ListGet(self.fragments, self.node_to_fragment[start_node])
                           correspondence == [ i \in DOMAIN new_mol.atoms |-> i ]
                           residue == correspondence_to_residue(mm, new_mol, correspondence,
                                                                start_node, FALSE)
                       IN [s0 EXCEPT !.mol = new_mol,
                                     !.added_fragment_nodes = @ \cup fragment_nodes,
                                     !.multiblock_correspondence = Append(@, correspondence),
                                     !.graph = Attach(@, start_node, residue),
                                     !.trace = << Visit(start_node, "instantiate",
                                                        correspondence, fragment_nodes) >>]
             ELSE [s0 EXCEPT !.mol = new_mol,
                             !.graph = Attach(@, start_node, MolCopy(new_mol)),
                             !.trace = << Visit(start_node, "copy", << >>, {}) >>]

\* lines 222-225, run for a node that carries from_itp
record_fragment(s, self, node, start_node, path, correspondence) ==
  IF start_node \notin DOMAIN self.node_to_fragment
  THEN Failed([s EXCEPT !.trace = Append(@, Visit(node, path, correspondence, {}))],
              "KeyError")
  ELSE LET fragment_nodes == ListGet(self.fragments, self.node_to_fragment[start_node])
       IN [s EXCEPT !.added_fragment_nodes = @ \cup fragment_nodes,
                    !.multiblock_correspondence = Append(@, correspondence),
                    !.trace = Append(@, Visit(node, path, correspondence, fragment_nodes))]

\* lines 211-225: extract the residue, attach it, record the fragment
\* molecule.nodes[mol_node] (line 65) raises KeyError for a correspondence that
\* names a node the molecule does not have
add_residue(s, self, mm, node, start_node, mol, path, correspondence) ==
  IF ~(Range(correspondence) \subseteq DOMAIN mol.atoms)
  THEN Failed([s EXCEPT !.mol = mol], "KeyError")
  ELSE LET residue == correspondence_to_residue(mm, mol, correspondence, node, FALSE)
           s1 == [s EXCEPT !.mol = mol, !.graph = Attach(@, node, residue)]
       IN IF FromItp(mm, node) # None /\ node \notin added_fragments
          THEN record_fragment(s1, self, node, start_node, path, correspondence)
          ELSE [s1 EXCEPT !.trace = Append(@, Visit(node, path, correspondence, {}))]

\* lines 200-225: one pass of the loop over node_keys[1:]
add_node(s, self, mm, ff, node, start_node) ==
  IF node \in s.added_fragment_nodes
  THEN IF node \notin DOMAIN self.node_to_fragment THEN Failed(s, "KeyError")
       ELSE LET fragment_id == self.node_to_fragment[node]
            IN IF fragment_id >= Len(s.multiblock_correspondence)
               THEN Failed(s, "IndexError")
               ELSE add_residue(s, self, mm, node, start_node, s.mol, "reuse",
                                ListGet(s.multiblock_correspondence, fragment_id))
  ELSE IF node \notin DOMAIN self.node_to_block THEN Failed(s, "KeyError")
       ELSE LET block == self.node_to_block[node]
            IN IF s.mol.nrexcl # ff[block].nrexcl THEN Failed(s, "ValueError")
               ELSE LET merged == merge_molecule(s.mol, block, ff)
                    IN add_residue(s, self, mm, node, start_node, merged.mol, "merge",
                                   merged.correspondence)

RECURSIVE add_rest(_, _, _, _, _, _)
add_rest(s, self, mm, ff, node_keys, i) ==
  IF s.err # None \/ i > Len(node_keys) THEN s
  ELSE add_rest(add_node(s, self, mm, ff, node_keys[i], node_keys[1]),
                self, mm, ff, node_keys, i + 1)

add_blocks(self, mm, ff) ==
  LET node_keys == SortedKeys(mm, Nodes(mm))
  IN add_rest(add_first(self, mm, ff, node_keys), self, mm, ff, node_keys, 2)

\* ------------------------------------------------------ run_molecule
\* The whole of run_molecule (lines 256-264) on instance state self, for the
\* edge sequence es the traversal yields and the library ff.
run_molecule(self, mm, es, ff) ==
  LET m == match_nodes_to_blocks(self.node_to_block, self.node_to_fragment,
                                 self.fragments, mm, es)
      self1 == [self EXCEPT !.node_to_block = m.node_to_block,
                            !.node_to_fragment = m.node_to_fragment,
                            !.fragments = m.fragments]
  IN IF m.err # None
     THEN [self |-> self1, ff |-> ff, graph |-> NoGraphs,
           molecule |-> NoMolecule, err |-> m.err]
     ELSE LET ff1 == tag_exclusions(m.node_to_block, ff)
              r == add_blocks(self1, mm, ff1)
          IN [self |-> [self1 EXCEPT !.added_fragment_nodes = r.added_fragment_nodes,
                                     !.multiblock_correspondence =
                                        r.multiblock_correspondence],
              ff |-> ff1, graph |-> r.graph,
              molecule |-> IF r.err = None THEN r.mol ELSE NoMolecule, err |-> r.err]

\* ------------------------------------------------------------- state
VARIABLES
  force_field,                \* template name -> [nrexcl, exclude]
  node_to_block,              \* the instance's fields (lines 85-90)
  node_to_fragment,
  fragments,
  multiblock_correspondence,
  added_fragment_nodes,
  meta_molecule,              \* the argument of the current run_molecule call
  graph,                      \* the graph attribute of each of its nodes
  molecule,                   \* its molecule attribute
  pc,                         \* position in run_molecule
  err,                        \* the exception that ended the call
  restart_graph,              \* the edges of restart_graph (line 120)
  tag_arg,                    \* the node_to_block argument of the last tag_exclusions
  trace,                      \* what add_blocks did for each visited node
  ffPre,                      \* the library when the last call started
  ffInit,                     \* the library before the first call
  used,                       \* run_molecule calls made on this instance
  runs                        \* calls made on the library

vars == << force_field, node_to_block, node_to_fragment, fragments,
           multiblock_correspondence, added_fragment_nodes, meta_molecule, graph,
           molecule, pc, err, restart_graph, tag_arg, trace, ffPre, ffInit, used,
           runs >>

instance_vars == << node_to_block, node_to_fragment, fragments,
                    multiblock_correspondence, added_fragment_nodes >>
call_vars == << meta_molecule, graph, molecule, err, restart_graph, trace >>

\* the instance's fields as one record
Self ==
  [node_to_block |-> node_to_block, node_to_fragment |-> node_to_fragment,
   fragments |-> fragments, multiblock_correspondence |-> multiblock_correspondence,
   added_fragment_nodes |-> added_fragment_nodes]

\* __init__ (lines 84-91)
NewSelf ==
  [node_to_block |-> EmptyDict, node_to_fragment |-> EmptyDict, fragments |-> << >>,
   multiblock_correspondence |-> << >>, added_fragment_nodes |-> {}]

\* every library whose templates have nrexcl in 1..MaxNrexcl and no exclude tag
Libraries == [BlockNames -> [nrexcl : 1..MaxNrexcl, exclude : {NoTag}]]

\* the libraries the assembly is checked on: all templates agree on nrexcl, or
\* template B has a larger one
AssemblyLibraries ==
  { [ b \in BlockNames |-> [nrexcl |-> IF b = "B" THEN k ELSE 1, exclude |-> NoTag] ] :
      k \in {1, MaxNrexcl} }

InitWith(libraries) ==
  /\ force_field \in libraries
  /\ ffInit = force_field
  /\ ffPre = force_field
  /\ node_to_block = NewSelf.node_to_block
  /\ node_to_fragment = NewSelf.node_to_fragment
  /\ fragments = NewSelf.fragments
  /\ multiblock_correspondence = NewSelf.multiblock_correspondence
  /\ added_fragment_nodes = NewSelf.added_fragment_nodes
  /\ meta_molecule = NoMeta
  /\ graph = NoGraphs
  /\ molecule = NoMolecule
  /\ pc = "idle"
  /\ err = None
  /\ restart_graph = {}
  /\ tag_arg = EmptyDict
  /\ trace = << >>
  /\ used = 0
  /\ runs = 0

Init == InitWith(Libraries)

InitAssembly == InitWith(AssemblyLibraries)

\* run_molecule is called with a meta-molecule of at most maxn nodes and runs
\* match_nodes_to_blocks (line 256)
MatchNodesToBlocks(maxn, maxruns) ==
  /\ pc \in {"idle", "done", "error", "returned"}
  /\ runs < maxruns
  /\ \E mm \in MetaMolecules(maxn) : \E es \in dfs_edges(mm) :
       LET m == match_nodes_to_blocks(node_to_block, node_to_fragment, fragments, mm, es)
       IN /\ \E x \in BOOLEAN : meta_molecule' = [mm EXCEPT !.extra = x]
          /\ restart_graph' = EdgeSet(SelectEdges(es, mm, TRUE))
          /\ node_to_block' = m.node_to_block
          /\ node_to_fragment' = m.node_to_fragment
          /\ fragments' = m.fragments
          /\ err' = m.err
          /\ pc' = IF m.err = None THEN "matched" ELSE "error"
  /\ graph' = NoGraphs
  /\ molecule' = NoMolecule
  /\ trace' = << >>
  /\ ffPre' = force_field
  /\ used' = used + 1
  /\ runs' = runs + 1
  /\ UNCHANGED << force_field, ffInit, multiblock_correspondence, added_fragment_nodes,
                  tag_arg >>

\* line 260
TagExclusions ==
  /\ pc = "matched"
  /\ force_field' = tag_exclusions(node_to_block, force_field)
  /\ tag_arg' = node_to_block
  /\ pc' = "tagged"
  /\ UNCHANGED << instance_vars, call_vars, ffPre, ffInit, used, runs >>

\* lines 262-264
AddBlocks ==
  /\ pc = "tagged"
  /\ LET r == add_blocks(Self, meta_molecule, force_field)
     IN /\ added_fragment_nodes' = r.added_fragment_nodes
        /\ multiblock_correspondence' = r.multiblock_correspondence
        /\ graph' = r.graph
        /\ trace' = r.trace
        /\ err' = r.err
        /\ molecule' = IF r.err = None THEN r.mol ELSE NoMolecule
        /\ pc' = IF r.err = None THEN "done" ELSE "error"
  /\ UNCHANGED << force_field, node_to_block, node_to_fragment, fragments,
                  meta_molecule, restart_graph, tag_arg, ffPre, ffInit, used, runs >>

\* a new MapToMolecule is constructed on the same library
NewInstance ==
  /\ pc \in {"done", "error", "returned"}
  /\ used > 0
  /\ node_to_block' = NewSelf.node_to_block
  /\ node_to_fragment' = NewSelf.node_to_fragment
  /\ fragments' = NewSelf.fragments
  /\ multiblock_correspondence' = NewSelf.multiblock_correspondence
  /\ added_fragment_nodes' = NewSelf.added_fragment_nodes
  /\ used' = 0
  /\ pc' = "idle"
  /\ UNCHANGED << force_field, call_vars, tag_arg, ffPre, ffInit, runs >>

\* tag_exclusions (lines 18-40) called on its own with a mapping of the caller,
\* of at most maxn nodes
TagExclusionsCall(maxn, maxruns) ==
  /\ pc \in {"idle", "done", "error", "returned"}
  /\ runs < maxruns
  /\ \E n \in 1..maxn : \E ntb \in [1..n -> BlockNames] :
       /\ force_field' = tag_exclusions(ntb, force_field)
       /\ tag_arg' = ntb
  /\ ffPre' = force_field
  /\ pc' = "returned"
  /\ runs' = runs + 1
  /\ UNCHANGED << instance_vars, call_vars, ffInit, used >>

\* one run_molecule call on a freshly constructed instance
Next == MatchNodesToBlocks(MaxNodes, 1) \/ TagExclusions \/ AddBlocks

Spec == InitAssembly /\ [][Next]_vars

\* several calls on one library, on the same or on a new instance
NextRuns ==
  \/ MatchNodesToBlocks(MaxNodesRuns, MaxRuns)
  \/ TagExclusions
  \/ AddBlocks
  \/ NewInstance
  \/ TagExclusionsCall(MaxNodesRuns, MaxRuns)

SpecRuns == Init /\ [][NextRuns]_vars

\* one call of tag_exclusions alone
NextTag == TagExclusionsCall(MaxTagNodes, 1)

SpecTag == Init /\ [][NextTag]_vars

\* ============================================================ claims
\* the templates node_to_block refers to
Referenced == Range(tag_arg)
\* the nrexcl values these templates had when the call started
OriginalExcls == { ffPre[b].nrexcl : b \in Referenced }
\* the connected components of restart_graph
RestartComponents == { Reach(restart_graph, {v}) : v \in UNION restart_graph }
Consistent(c) == \A v \in c, w \in c : FromItp(meta_molecule, v) = FromItp(meta_molecule, w)
\* tag_exclusions has just returned
Tagged == pc = "tagged" \/ pc = "returned"
\* add_blocks returned or raised
AddBlocksEnded == pc = "done" \/ (pc = "error" /\ err # "IOError")

\* C2: after match_nodes_to_blocks returns without error every node of the
\* meta-molecule has an entry in node_to_block; when no node carries from_itp the
\* entry is the node's resname and the fragment list is empty.
C2_EveryNodeMapped ==
  pc = "matched" =>
    /\ \A v \in Nodes(meta_molecule) : v \in DOMAIN node_to_block
    /\ restart_attr(meta_molecule) = {} =>
         /\ \A v \in Nodes(meta_molecule) :
              v \in DOMAIN node_to_block /\ node_to_block[v] = Resname(meta_molecule, v)
         /\ fragments = << >>

\* C3 as claimed: with more than one distinct nrexcl among the referenced
\* templates, after tag_exclusions a template whose nrexcl was above the minimum
\* carries exclude = its original nrexcl and a template that was at the minimum
\* carries no exclude tag.
C3_MinimumUntagged ==
  (Tagged /\ Cardinality(OriginalExcls) > 1) =>
    \A b \in Referenced :
      IF ffPre[b].nrexcl > SetMin(OriginalExcls)
      THEN force_field[b].exclude = ffPre[b].nrexcl
      ELSE force_field[b].exclude = NoTag

\* C3 amended: with more than one distinct nrexcl among the referenced templates,
\* after tag_exclusions every referenced template, the ones at the minimum
\* included, carries exclude = its original nrexcl (also when several nodes map
\* to one template); the tags of templates not referenced are left as they were.
C3_AllTaggedWithOriginal ==
  (Tagged /\ Cardinality(OriginalExcls) > 1) =>
    /\ \A b \in Referenced : force_field[b].exclude = ffPre[b].nrexcl
    /\ \A b \in BlockNames \ Referenced : force_field[b].exclude = ffPre[b].exclude

\* two nodes map to one template above the minimum, another template is at it
C3_Witness ==
  /\ Tagged
  /\ Cardinality(OriginalExcls) > 1
  /\ \E v \in DOMAIN tag_arg, w \in DOMAIN tag_arg :
       /\ v # w
       /\ tag_arg[v] = tag_arg[w]
       /\ ffPre[tag_arg[v]].nrexcl > SetMin(OriginalExcls)
       /\ force_field[tag_arg[v]].exclude = ffPre[tag_arg[v]].nrexcl
  /\ \E b \in Referenced : ffPre[b].nrexcl = SetMin(OriginalExcls)

\* C5: after tag_exclusions returns all referenced templates have the same
\* nrexcl, the minimum of the values they had when the call started; templates
\* not referenced are unchanged.
C5_NrexclFlattened ==
  Tagged =>
    /\ \A b \in Referenced : force_field[b].nrexcl = SetMin(OriginalExcls)
    /\ \A b \in BlockNames \ Referenced : force_field[b] = ffPre[b]

\* three distinct original values and a template left alone
C5_Witness ==
  /\ Tagged
  /\ Cardinality(OriginalExcls) = 3
  /\ Referenced # BlockNames
  /\ \A b \in Referenced : force_field[b].nrexcl = SetMin(OriginalExcls)

C7_WitnessRaised ==
  /\ pc = "error" /\ err = "IOError"
  /\ \E c \in RestartComponents : ~Consistent(c)

\* C4: whatever calls were made on the library, a template that carries an
\* exclude tag has it equal to the nrexcl it had before the first call.
C4_OriginalNrexclKept ==
  \A b \in BlockNames :
    force_field[b].exclude # NoTag => force_field[b].exclude = ffInit[b].nrexcl

\* the residues a template holds
BlockResidues(b) == { BlockAtoms(b)[i].resid : i \in DOMAIN BlockAtoms(b) }
\* the template of fragment f holds one residue per member, and the members
\* follow each other in resid order
TemplateFits(f) ==
  \E v \in f : { Resid(meta_molecule, w) - Resid(meta_molecule, v) + 1 : w \in f } =
               BlockResidues(FromItp(meta_molecule, v))
\* the visits of add_blocks that instantiated or merged a template for a member of f
MergesOf(f) ==
  { i \in DOMAIN trace : trace[i].path \in {"instantiate", "merge"} /\ trace[i].node \in f }
GraphNodes(v) == { rn.id : rn \in graph[v] }

RECURSIVE SumAtoms(_)
SumAtoms(names) ==
  IF names = << >> THEN 0 ELSE Len(BlockAtoms(Head(names))) + SumAtoms(Tail(names))
\* one template per fragment and one per node outside every fragment
RECURSIVE TemplatesNeeded(_, _)
TemplatesNeeded(keys, seen) ==
  IF keys = << >> THEN << >>
  ELSE LET v == Head(keys)
       IN IF v \in seen THEN TemplatesNeeded(Tail(keys), seen)
          ELSE IF v \in DOMAIN node_to_fragment
          THEN << node_to_block[v] >> \o
               TemplatesNeeded(Tail(keys), seen \cup ListGet(fragments, node_to_fragment[v]))
          ELSE << node_to_block[v] >> \o TemplatesNeeded(Tail(keys), seen)

\* C1: for every fragment, wherever its members fall in the visiting order,
\* add_blocks instantiates or merges the fragment's template exactly once, the
\* molecule holds one template per fragment, and the members' residue graphs are
\* non-empty, pairwise disjoint subsets of that merge's nodes, split by resid.
C1_FragmentMergedOnce ==
  (AddBlocksEnded /\ \A v \in Nodes(meta_molecule) : v \in DOMAIN node_to_block) =>
    \A f \in Range(fragments) : TemplateFits(f) =>
      /\ err = None
      /\ molecule # NoMolecule
      /\ Len(molecule.atoms) =
           SumAtoms(TemplatesNeeded(SortedKeys(meta_molecule, Nodes(meta_molecule)), {}))
      /\ Cardinality(MergesOf(f)) = 1
      /\ \A i \in MergesOf(f) : \A v \in f :
           /\ v \in DOMAIN graph
           /\ graph[v] # {}
           /\ GraphNodes(v) \subseteq Range(trace[i].correspondence)
           /\ \A rn \in graph[v] :
                molecule.atoms[rn.id].resid = Resid(meta_molecule, v)
           /\ \A w \in f \ {v} : w \in DOMAIN graph /\ GraphNodes(v) \cap GraphNodes(w) = {}

\* C8: a node found already materialized is extracted with the correspondence
\* obtained when its own fragment was instantiated or merged, and the nodes
\* recorded as materialized when a fragment is instantiated or merged are the
\* members of the current node's fragment.
C8_OwnFragmentCorrespondence ==
  AddBlocksEnded =>
    /\ err # "IndexError"
    /\ \A i \in DOMAIN trace :
         LET node == trace[i].node
         IN node \in DOMAIN node_to_fragment =>
              LET f == ListGet(fragments, node_to_fragment[node])
              IN /\ trace[i].path = "reuse" =>
                      \E j \in 1..(i - 1) :
                        /\ trace[j].path \in {"instantiate", "merge"}
                        /\ trace[j].node \in f
                        /\ trace[j].correspondence = trace[i].correspondence
                 /\ trace[i].path \in {"instantiate", "merge"} => trace[i].marked = f

\* what residue extraction leaves on a node of the graph of meta-molecule node v
Extracted(rn, v) ==
  /\ rn.resid = Resid(meta_molecule, v)
  /\ rn.resname = Resname(meta_molecule, v)
  /\ rn.from_itp = FromItp(meta_molecule, v)
  /\ rn.extra = meta_molecule.extra
  /\ rn.seqID = 0
  /\ rn.graph = FALSE

\* C6 as claimed: after add_blocks every node of every meta-molecule node's
\* graph, whichever path attached it, has the node's resid, carries every
\* attribute of the meta-molecule node but graph and seqID, and carries neither
\* graph nor seqID.
C6_EveryGraphExtracted ==
  pc = "done" =>
    \A v \in Nodes(meta_molecule) :
      v \in DOMAIN graph /\ \A rn \in graph[v] : Extracted(rn, v)

\* the first node in resid order when it carries no from_itp
CopiedNode(v) ==
  /\ v = SortedKeys(meta_molecule, Nodes(meta_molecule))[1]
  /\ FromItp(meta_molecule, v) = None

\* C6 amended: the same for every node but a first node without from_itp; that
\* node's graph is a copy of the whole instantiated template and its nodes carry
\* the template's attributes only (no other attribute of the meta-molecule node,
\* no graph, no seqID).
C6_ExtractedButFirstCopy ==
  pc = "done" =>
    \A v \in Nodes(meta_molecule) :
      /\ v \in DOMAIN graph
      /\ IF CopiedNode(v)
         THEN /\ graph[v] = MolCopy(to_molecule(node_to_block[v], force_field))
              /\ \A rn \in graph[v] : ~rn.extra /\ rn.seqID = 0 /\ ~rn.graph
         ELSE \A rn \in graph[v] : Extracted(rn, v)

\* a run in which a fragment member was extracted from a reused correspondence
\* and a single-residue node from a fresh merge, the nodes carrying the extra
\* attribute
C6_Witness ==
  /\ pc = "done"
  /\ meta_molecule.extra
  /\ \E i \in DOMAIN trace, j \in DOMAIN trace :
       /\ trace[i].path = "reuse" /\ graph[trace[i].node] # {}
       /\ trace[j].path = "merge" /\ graph[trace[j].node] # {}
       /\ \A rn \in graph[trace[i].node] \cup graph[trace[j].node] : rn.extra

\* the first node was attached as a copy and a later one extracted
C6_WitnessCopy ==
  /\ pc = "done"
  /\ meta_molecule.extra
  /\ \E i \in DOMAIN trace, j \in DOMAIN trace :
       /\ trace[i].path = "copy" /\ graph[trace[i].node] # {}
       /\ trace[j].path = "merge" /\ graph[trace[j].node] # {}

\* C9: every depth-first enumeration of the meta-molecule's edges gives the
\* node-to-template mapping and the partition into fragments that this one gave.
C9_TraversalIrrelevant ==
  (pc = "matched" /\ used = 1) =>
    \A es \in dfs_edges(meta_molecule) :
      LET m == match_nodes_to_blocks(NewSelf.node_to_block, NewSelf.node_to_fragment,
                                     NewSelf.fragments, meta_molecule, es)
      IN /\ m.err = None
         /\ m.node_to_block = node_to_block
         /\ Range(m.fragments) = Range(fragments)

\* the result restricted to the nodes of the current meta-molecule
Restrict(f, S) == [ v \in DOMAIN f \cap S |-> f[v] ]
FragmentOf(ntf, frags, S) ==
  [ v \in DOMAIN ntf \cap S |-> ListGet(frags, ntf[v]) ]

\* C10: run_molecule on an instance that processed other meta-molecules gives
\* the mapping, fragments, molecule and per-node graphs that a freshly
\* constructed instance gives for the same meta-molecule and library state.
C10_SameAsFreshInstance ==
  pc \in {"done", "error"} =>
    \E es \in dfs_edges(meta_molecule) :
      LET r == run_molecule(NewSelf, meta_molecule, es, ffPre)
          S == Nodes(meta_molecule)
      IN /\ r.err = err
         /\ r.molecule = molecule
         /\ r.graph = graph
         /\ err # "IOError" =>
              /\ Restrict(r.self.node_to_block, S) = Restrict(node_to_block, S)
              /\ FragmentOf(r.self.node_to_fragment, r.self.fragments, S) =
                   FragmentOf(node_to_fragment, fragments, S)
====
